---- MODULE Spec2Model ----
(***************************************************************************)
(* Model of the Python LangChain classification server:                    *)
(*   schemas.py        - the schema registry                               *)
(*   classification.py - PythonLangChainClassifier.classify_input and the  *)
(*                       global classifier instance                        *)
(* Python values are tagged records; floats are counted in tenths, so that *)
(* 0.5 is PyFloat(5) and 1.0 is PyFloat(10).  Strings built by f-strings   *)
(* and join are sequences of text pieces.                                  *)
(***************************************************************************)
EXTENDS Integers, Sequences, FiniteSets, TLC

(* ---------------------------------------------------------------- bounds *)

\* longest tool_calls list the backend answers with
MaxToolCalls == 2

\* most readings of the clock a model of the prompt builder goes through
MaxTicks == 2

(* ------------------------------------------------------ the module state *)

VARIABLES
  registry,             \* the module global SCHEMA_REGISTRY (a dict object)
  _classifier,          \* the global classifier instance, None before main
  caller_list           \* a list a caller got from list_available_schemas

(* --------------------------------------------------------- Python values *)

None == [kind |-> "None"]
PyFloat(t) == [kind |-> "float", tenths |-> t]
PyNaN == [kind |-> "float_nan"]
PyInt(i) == [kind |-> "int", i |-> i]
\* an int JSON can carry and a double cannot (beyond 1.8e308)
PyBigInt == [kind |-> "int_beyond_double"]
PyBool(b) == [kind |-> "bool", b |-> b]
PyStr(s) == [kind |-> "str", s |-> s]
PyList == [kind |-> "list"]

EmptyDict == <<>>

Return(v) == [ok |-> TRUE, val |-> v]
Raise(e) == [ok |-> FALSE, exc |-> e]

\* a str built from pieces (f-string, join): the sequence of its pieces
Text(pieces) == [kind |-> "text", pieces |-> pieces]

\* an exception instance: its class and its args tuple (here zero or one
\* message, the message being a sequence of text pieces)
Exception(type, args) == [type |-> type, args |-> args]
ValueError(msg) == Exception("ValueError", <<msg>>)

\* a handler that catches ValueError alone
ExceptionSubclasses_OnlyValueError == {"ValueError"}

\* the classes `except Exception` catches
ExceptionSubclasses ==
  {"ValueError", "TypeError", "OverflowError", "IndexError", "KeyError",
   "ReadTimeout", "ConnectError", "ResponseError"}

\* str(e) of BaseException: "" without args, the argument's text with one
str(e) == IF Len(e.args) = 0 THEN Text(<<>>) ELSE Text(e.args[1])

RECURSIVE join(_, _)
\* sep.join(names), as text pieces
join(sep, names) ==
  IF Len(names) = 0 THEN <<>>
  ELSE IF Len(names) = 1 THEN <<names[1]>>
  ELSE <<names[1], sep>> \o join(sep, Tail(names))

\* piece in text
Contains(text, piece) ==
  /\ text.kind = "text"
  /\ \E i \in 1..Len(text.pieces) : text.pieces[i] = piece

(* ------------------------------------------------------------ schemas.py *)

\* a field of a model: its annotation and the constraints of Field(...), a
\* set of (constraint, bound) pairs; no field has a default, so every field
\* is required; the bounds of confidence are counted in tenths
Field(name, annotation, constraints) ==
  [name |-> name, required |-> TRUE, annotation |-> annotation,
   constraints |-> constraints]

Type == Field("type", "ClassificationType", {})
Confidence == Field("confidence", "float", {<<"ge", 0>>, <<"le", 10>>})

\* a minimal schema that forgot confidence
MinimalSchema_NoConfidence ==
  [name |-> "MinimalSchema", model_fields |-> <<Type>>]

MinimalSchema ==
  [name |-> "MinimalSchema", model_fields |-> <<Type, Confidence>>]

StandardSchema ==
  [name |-> "StandardSchema",
   model_fields |->
     <<Type, Confidence, Field("reasoning", "str", {<<"max_length", 150>>})>>]

DetailedSchema ==
  [name |-> "DetailedSchema",
   model_fields |->
     <<Type, Confidence,
       Field("reasoning", "str", {<<"max_length", 200>>}),
       Field("indicators", "List[str]", {}),
       Field("complexity_score", "int", {<<"ge", 1>>, <<"le", 5>>})>>]

\* an optimized schema without the lower bound of reasoning
OptimizedSchema_NoMinLength ==
  [name |-> "OptimizedSchema",
   model_fields |->
     <<Type, Confidence,
       Field("reasoning", "str", {<<"max_length", 100>>}),
       Field("task_steps", "int", {<<"ge", 1>>})>>]

OptimizedSchema ==
  [name |-> "OptimizedSchema",
   model_fields |->
     <<Type, Confidence,
       Field("reasoning", "str", {<<"min_length", 10>>, <<"max_length", 100>>}),
       Field("task_steps", "int", {<<"ge", 1>>})>>]

ContextAwareSchema ==
  [name |-> "ContextAwareSchema",
   model_fields |->
     <<Type, Confidence,
       Field("reasoning", "str", {<<"max_length", 150>>}),
       Field("conversation_context", "ConversationContext", {}),
       Field("step_count", "int", {<<"ge", 1>>}),
       Field("requires_coordination", "bool", {})>>]

\* the dict literal SCHEMA_REGISTRY is bound to at import; a dict keeps
\* insertion order: a sequence of (key, value) items
SCHEMA_REGISTRY ==
  << <<"minimal", MinimalSchema>>,
     <<"standard", StandardSchema>>,
     <<"detailed", DetailedSchema>>,
     <<"optimized", OptimizedSchema>>,
     <<"context_aware", ContextAwareSchema>> >>

keys(d) == [i \in 1..Len(d) |-> d[i][1]]
HasKey(d, k) == \E i \in 1..Len(d) : d[i][1] = k
GetItem(d, k) == d[CHOOSE i \in 1..Len(d) : d[i][1] = k][2]

\* an error message that does not enumerate the registry
get_schema_model_NoList(name) ==
  IF ~HasKey(registry, name)
  THEN Raise(ValueError(<<"Unknown schema", " '", name, "'">>))
  ELSE Return(GetItem(registry, name))

get_schema_model(name) ==
  IF ~HasKey(registry, name)
  THEN Raise(ValueError(<<"Unknown schema", " '", name,
                          "'. Available schemas: ">>
                        \o join(", ", keys(registry))))
  ELSE Return(GetItem(registry, name))

\* a list function that hands out the list object it handed out before
list_available_schemas_Shared ==
  IF caller_list.kind = "list" THEN caller_list.items ELSE keys(registry)

\* list(SCHEMA_REGISTRY.keys()): a new list at every call
list_available_schemas == keys(registry)

FieldNames(schema_model) ==
  {schema_model.model_fields[i].name : i \in 1..Len(schema_model.model_fields)}
RequiredFields(schema_model) ==
  {schema_model.model_fields[i].name :
     i \in {j \in 1..Len(schema_model.model_fields) :
              schema_model.model_fields[j].required}}

ClassificationResult(result, schema_name, model_id, latency_ms, success, error_message) ==
  [result |-> result, schema_name |-> schema_name, model_id |-> model_id,
   latency_ms |-> latency_ms, success |-> success,
   error_message |-> error_message]

(* ----------------------------------------------------- classification.py *)

\* class ClassificationConfig: temperature in tenths, timeout in ms
DefaultBaseUrl == "http://localhost:11434"
DefaultModelId == "llama3.2:3b"
DefaultTemperature == 1
DefaultTimeout == 30000

ClassificationConfig(base_url, model_id, temperature) ==
  [base_url |-> base_url, model_id |-> model_id, temperature |-> temperature,
   timeout |-> DefaultTimeout]

\* a constructor that hands the milliseconds to ChatOllama as seconds
PythonLangChainClassifier_NoConversion(config) ==
  [kind |-> "PythonLangChainClassifier",
   config |-> config,
   llm |-> [model |-> config.model_id, base_url |-> config.base_url,
            temperature |-> config.temperature,
            timeout |-> config.timeout]]

\* PythonLangChainClassifier.__init__; llm.timeout is in seconds
PythonLangChainClassifier(config) ==
  [kind |-> "PythonLangChainClassifier",
   config |-> config,
   llm |-> [model |-> config.model_id, base_url |-> config.base_url,
            temperature |-> config.temperature,
            timeout |-> config.timeout \div 1000]]

\* the float literals among the strings the backend sends
FloatLiterals == {"0.1", "0.9", "1.5", "nan"}
ParseFloatLiteral(s) ==
  CASE s = "0.1" -> PyFloat(1)
    [] s = "0.9" -> PyFloat(9)
    [] s = "1.5" -> PyFloat(15)
    [] s = "nan" -> PyNaN

\* the builtin float(x)
float(x) ==
  CASE x.kind \in {"float", "float_nan"} -> Return(x)
    [] x.kind = "int" -> Return(PyFloat(10 * x.i))
    [] x.kind = "bool" -> Return(PyFloat(IF x.b THEN 10 ELSE 0))
    [] x.kind = "int_beyond_double" ->
         Raise(Exception("OverflowError",
                         <<(<<"int too large to convert to float">>)>>))
    [] x.kind = "str" ->
         IF x.s \in FloatLiterals THEN Return(ParseFloatLiteral(x.s))
         ELSE Raise(ValueError(<<"could not convert string to float: ", x.s>>))
    [] OTHER ->
         Raise(Exception("TypeError",
                         <<(<<"float() argument must be a string or a real number, not ",
                              x.kind>>)>>))

\* a confidence fix whose handler forgot TypeError
FixConfidence_OnlyValueError(result) ==
  IF "confidence" \in DOMAIN result
  THEN LET r == float(result["confidence"])
       IN IF r.ok
          THEN Return([result EXCEPT !["confidence"] = r.val])
          ELSE IF r.exc.type \in {"ValueError"}
               THEN Return([result EXCEPT !["confidence"] = PyFloat(5)])
               ELSE Raise(r.exc)
  ELSE Return(result)

\* a confidence fix that also puts 0.5 where the backend sent no confidence
FixConfidence_Defaulting(result) ==
  IF "confidence" \in DOMAIN result
  THEN LET r == float(result["confidence"])
       IN IF r.ok
          THEN Return([result EXCEPT !["confidence"] = r.val])
          ELSE IF r.exc.type \in {"ValueError", "TypeError"}
               THEN Return([result EXCEPT !["confidence"] = PyFloat(5)])
               ELSE Raise(r.exc)
  ELSE Return(result @@ ("confidence" :> PyFloat(5)))

\* lines 88-93: the confidence fix of classify_input
FixConfidence(result) ==
  IF "confidence" \in DOMAIN result
  THEN LET r == float(result["confidence"])
       IN IF r.ok
          THEN Return([result EXCEPT !["confidence"] = r.val])
          ELSE IF r.exc.type \in {"ValueError", "TypeError"}
               THEN Return([result EXCEPT !["confidence"] = PyFloat(5)])
               ELSE Raise(r.exc)
  ELSE Return(result)

\* an extraction without the emptiness test: indexing raises IndexError
ExtractResult_NoCheck(response) ==
  IF Len(response.tool_calls) = 0
  THEN Raise(Exception("IndexError", <<(<<"list index out of range">>)>>))
  ELSE Return(response.tool_calls[1].args)

\* an extraction that takes the last tool call
ExtractResult_Last(response) ==
  IF Len(response.tool_calls) = 0
  THEN Raise(ValueError(<<"No tool calls found in the response">>))
  ELSE Return(response.tool_calls[Len(response.tool_calls)].args)

\* lines 82-86: the arguments of the first tool call of the response
ExtractResult(response) ==
  IF Len(response.tool_calls) = 0
  THEN Raise(ValueError(<<"No tool calls found in the response">>))
  ELSE Return(response.tool_calls[1].args)

\* the body of the tool function classify_text, for the schema_fields of
\* its closure (the function is declared and bound, never called)
classify_text(schema_fields, kwargs) ==
  IF "type" \notin DOMAIN kwargs \/ "confidence" \notin DOMAIN kwargs
  THEN Raise(ValueError(<<"type and confidence are required fields">>))
  ELSE Return([f \in {schema_fields[i].name : i \in 1..Len(schema_fields)}
                      \cap DOMAIN kwargs |-> kwargs[f]])

_create_classification_tool(schema_model, schema_name) ==
  [name |-> "classify_text",
   schema_fields |-> schema_model.model_fields,
   args_schema |-> schema_model]

\* instructions that name step_count for every schema
Addendum_StepCountAlways(schema_name) ==
  IF schema_name = "context_aware"
  THEN <<"Additional Analysis Required", "conversation_context",
         "step_count", "requires_coordination">>
  ELSE <<"Additional Analysis Required", "step_count">>

\* the schema-specific instructions of the prompt
Addendum(schema_name) ==
  IF schema_name = "context_aware"
  THEN <<"Additional Analysis Required", "conversation_context",
         "step_count", "requires_coordination">>
  ELSE IF schema_name = "detailed"
  THEN <<"Additional Analysis Required", "indicators", "complexity_score">>
  ELSE IF schema_name = "optimized"
  THEN <<"Additional Analysis Required", "task_steps">>
  ELSE <<>>

\* a prompt that cuts the input text down to its first piece
_create_classification_prompt_Truncated(text, name) ==
  Text(<<"You are a text classifier", "Input to classify", "\"">>
       \o SubSeq(text.pieces, 1, 1)
       \o <<"\"", "Classification Rules", "Key Indicators">>
       \o Addendum(name)
       \o <<"Instructions", "When in doubt, prefer prompt">>)

\* a prompt whose schema-specific instructions come last
_create_classification_prompt_AddendumLast(text, name) ==
  Text(<<"You are a text classifier", "Input to classify", "\"">>
       \o text.pieces
       \o <<"\"", "Classification Rules", "Key Indicators">>
       \o <<"Instructions", "When in doubt, prefer prompt">>
       \o Addendum(name))

\* a prompt that names the model of the shared classifier
_create_classification_prompt_NamesModel(text, name) ==
  Text(<<"You are a text classifier", _classifier.config.model_id,
         "Input to classify", "\"">>
       \o text.pieces
       \o <<"\"", "Classification Rules", "Key Indicators">>
       \o Addendum(name)
       \o <<"Instructions", "When in doubt, prefer prompt">>)

\* the f-strings of the prompt; the input text goes in between two quotes
_create_classification_prompt(text, name) ==
  Text(<<"You are a text classifier", "Input to classify", "\"">>
       \o text.pieces
       \o <<"\"", "Classification Rules", "Key Indicators">>
       \o Addendum(name)
       \o <<"Instructions", "When in doubt, prefer prompt">>)

(* ------------------------------------------------- the backend's answers *)

Absent == [kind |-> "absent"]

\* a dict with the keys whose value is not Absent
Dict(type, confidence, reasoning, extra_field) ==
  [k \in {n \in {"type", "confidence", "reasoning", "extra_field"} :
            (CASE n = "type" -> type
               [] n = "confidence" -> confidence
               [] n = "reasoning" -> reasoning
               [] n = "extra_field" -> extra_field) # Absent}
     |-> CASE k = "type" -> type
           [] k = "confidence" -> confidence
           [] k = "reasoning" -> reasoning
           [] k = "extra_field" -> extra_field]

TypeValues == {Absent, PyStr("prompt"), PyStr("command")}
ConfidenceValues ==
  {Absent, PyFloat(9), PyFloat(15), PyStr("0.9"), PyStr("high"), None,
   PyBigInt}

\* the arguments of a tool call: with or without type and confidence, and
\* for a well-formed pair also with reasoning and with a field of no schema
ArgsSet ==
  {Dict(t, c, Absent, Absent) : t \in TypeValues, c \in ConfidenceValues}
  \cup {Dict(PyStr("workflow"), PyFloat(9), PyStr("two steps"), x) :
          x \in {Absent, PyStr("over-generated")}}
  \cup {Dict(PyStr("prompt"), PyStr("nan"), Absent, PyStr("over-generated"))}

\* the arguments of the tool calls that follow the first one
LaterArgsSet ==
  {Dict(PyStr("command"), PyFloat(15), Absent, Absent)}

ToolCall(args) == [name |-> "classify_text", args |-> args]

ToolCallLists ==
  UNION {{tc \in [1..n -> {ToolCall(a) : a \in ArgsSet}] :
            \A i \in 2..n : tc[i].args \in LaterArgsSet} : n \in 0..MaxToolCalls}

\* what llm_with_tools.invoke does: an AIMessage, or an exception of the
\* HTTP client (timeout, refused connection, error status of the backend)
BackendExceptions ==
  {Exception("ReadTimeout", <<(<<"timed out">>)>>),
   Exception("ConnectError", <<(<<"All connection attempts failed">>)>>),
   Exception("ResponseError", <<>>)}

InvokeOutcomes ==
  {Raise(e) : e \in BackendExceptions}
  \cup {Return([tool_calls |-> tc]) : tc \in ToolCallLists}

\* ms the backend takes to answer: at once, or longer than the timeout
BackendDelays == {200, 45000}

\* ms the blocking request takes with a client that waits llm.timeout seconds
Waited(llm, d) == IF d > llm.timeout * 1000 THEN llm.timeout * 1000 ELSE d

\* the outcomes of one request: the client gives up after llm.timeout
\* seconds, an answer that comes in time is any answer or any other error
invoke(llm, d) ==
  IF d > llm.timeout * 1000
  THEN {r \in InvokeOutcomes : ~r.ok /\ r.exc.type = "ReadTimeout"}
  ELSE {r \in InvokeOutcomes : r.ok \/ r.exc.type # "ReadTimeout"}

\* ms the system clock is set forth or back (NTP, an operator) while the
\* request blocks; time.time() is the wall clock
ClockSteps == {0, -60000}

(* ------------------------------------------------------------- the state *)

VARIABLES
  environ,              \* os.environ of the process
  clock,                \* time.time() in ms, counted from the reading at the
                        \* entry of the current operation
  pc,                   \* position of the classify_input call
  self,                 \* the classifier the method is called on
  input_text,           \* argument of the call
  schema_name,          \* argument of the call ("" when there is no call)
  start_time,           \* local
  schema_model,         \* local
  classification_tool,  \* local
  llm_with_tools,       \* local
  prompt,               \* local
  delay,                \* ms the backend takes to answer the request
  invocations,          \* requests sent to the backend in the current call
  reply,                \* the answer of the backend, as it was sent
  response,             \* local: the AIMessage made from the answer
  result,               \* local
  exc,                  \* the exception on its way to the except clause
  ret,                  \* the ClassificationResult returned by the last call
  raised,               \* the exception that left the last call
  request,              \* the tool call handle_call_tool is serving, or None
  tool_response,        \* what handle_call_tool returned or raised last
  first_prompt,         \* history: the first prompt built and its inputs
  last_config,          \* history: the argument of the last call of
                        \* initialize_classifier, or None
  got                   \* what the last call of get_classifier by a caller of
                        \* the module returned or raised

(* ------------------------------------------------------------ the inputs *)

InputTexts == {Text(<<"hi">>), Text(<<"what is ", "step_count", "?">>)}
SchemaNames ==
  {"minimal", "standard", "detailed", "optimized", "context_aware",
   "nonexistent"}
ModelIds == {DefaultModelId, "qwen3:8b"}

\* os.environ at the start of the process: nothing set, or the backend, the
\* model and the temperature set
Environments ==
  {<<>>,
   ("OLLAMA_BASE_URL" :> "http://gpu:11434" @@ "MODEL_ID" :> "qwen3:8b"
    @@ "TEMPERATURE" :> "0.9")}

getenv(key, default) ==
  IF key \in DOMAIN environ THEN environ[key] ELSE default

\* dict.get(key, default)
get(d, key, default) == IF key \in DOMAIN d THEN d[key] ELSE default

\* the arguments dicts of the tool calls a client sends; None is no dict
ToolArguments ==
  {None,
   [kind |-> "dict", d |-> <<>>],
   [kind |-> "dict", d |-> ("schema_name" :> PyStr("minimal"))],
   [kind |-> "dict", d |-> ("input_text" :> Text(<<>>))]}
  \cup {[kind |-> "dict", d |-> ("input_text" :> t)] : t \in InputTexts}
  \cup {[kind |-> "dict",
         d |-> ("input_text" :> Text(<<"hi">>) @@ "schema_name" :> PyStr(n))] :
          n \in {"minimal", "context_aware", "nonexistent"}}
  \cup {[kind |-> "dict",
         d |-> ("input_text" :> Text(<<"hi">>) @@ "model_id" :> PyStr("qwen3:8b")
                @@ "temperature" :> PyFloat(7))],
        [kind |-> "dict",
         d |-> ("input_text" :> Text(<<"hi">>)
                @@ "model_id" :> PyStr("llama3.2:3b")
                @@ "temperature" :> PyFloat(3))]}

\* the arguments a client sends to a tool that takes none
NoArguments == {None, [kind |-> "dict", d |-> <<>>]}

ToolNames == {"classify_input", "list_schemas", "delete_schema"}

TextContent(text) == [type |-> "text", text |-> text]
json_dumps(obj) == [kind |-> "json", of |-> obj]

(* ------------------------------------------------------------ operations *)

locals ==
  <<schema_model, classification_tool, llm_with_tools, prompt, response,
    result, exc>>
\* what belongs to the classify_input call in progress
call ==
  <<self, input_text, schema_name, start_time, delay, invocations, reply,
    ret, raised>>
globals == <<environ, registry, _classifier, last_config>>
history == <<first_prompt, got>>
vars ==
  <<environ, registry, _classifier, clock, pc, self, input_text, schema_name,
    start_time, schema_model, classification_tool, llm_with_tools, prompt,
    delay, invocations, reply, response, result, exc, ret, raised, request,
    tool_response, caller_list, first_prompt, last_config, got>>

Init ==
  /\ environ \in Environments
  /\ registry = SCHEMA_REGISTRY
  /\ _classifier = None
  /\ clock = 0
  /\ pc = "idle"
  /\ self = None
  /\ input_text = None
  /\ schema_name = ""
  /\ start_time = 0
  /\ schema_model = None
  /\ classification_tool = None
  /\ llm_with_tools = None
  /\ prompt = None
  /\ delay = 0
  /\ invocations = 0
  /\ reply = None
  /\ response = None
  /\ result = None
  /\ exc = None
  /\ ret = None
  /\ raised = None
  /\ request = None
  /\ tool_response = None
  /\ caller_list = None
  /\ first_prompt = None
  /\ last_config = None
  /\ got = None

\* an initialize_classifier that leaves a classifier that exists alone
initialize_classifier_Once(config) ==
  /\ _classifier' = IF _classifier = None
                    THEN PythonLangChainClassifier(config)
                    ELSE _classifier
  /\ last_config' = config

\* initialize_classifier(config)
initialize_classifier(config) ==
  /\ _classifier' = PythonLangChainClassifier(config)
  /\ last_config' = config

\* get_classifier()
get_classifier ==
  IF _classifier = None
  THEN Raise(Exception("RuntimeError",
                       <<(<<"Classifier not initialized. Call initialize_classifier() first.">>)>>))
  ELSE Return(_classifier)

\* no classify_input call is in progress
AtTopLevel == pc \in {"idle", "returned"}

\* the frame of the classify_input call that returned is gone
NoFrame ==
  /\ self' = None
  /\ input_text' = None
  /\ schema_name' = ""
  /\ start_time' = 0
  /\ schema_model' = None
  /\ classification_tool' = None
  /\ llm_with_tools' = None
  /\ prompt' = None
  /\ delay' = 0
  /\ invocations' = 0
  /\ reply' = None
  /\ response' = None
  /\ result' = None
  /\ exc' = None
  /\ ret' = None
  /\ raised' = None
  /\ clock' = 0
  /\ pc' = "idle"

\* the entry of classifier.classify_input(text, name), up to line 63
Enter(classifier, text, name) ==
  /\ self' = classifier
  /\ input_text' = text
  /\ schema_name' = name
  /\ clock' = 0
  /\ start_time' = clock'
  /\ schema_model' = None
  /\ classification_tool' = None
  /\ llm_with_tools' = None
  /\ prompt' = None
  /\ delay' = 0
  /\ invocations' = 0
  /\ reply' = None
  /\ response' = None
  /\ result' = None
  /\ exc' = None
  /\ ret' = None
  /\ raised' = None
  /\ pc' = "get_schema_model"

\* the configuration main() reads from the environment, lines 131-135
StartConfig ==
  ClassificationConfig(getenv("OLLAMA_BASE_URL", "http://localhost:11434"),
                       getenv("MODEL_ID", "llama3.2:3b"),
                       float(PyStr(getenv("TEMPERATURE", "0.1"))).val.tenths)

\* main(): the configuration of the environment, then the global classifier
main ==
  /\ pc = "idle"
  /\ _classifier = None
  /\ initialize_classifier(StartConfig)
  /\ UNCHANGED <<environ, registry, clock, pc, call, locals, request,
                 tool_response, caller_list, history>>

\* classify_input is entered: get_classifier().classify_input(text, name)
classify_input(text, name) ==
  /\ AtTopLevel
  /\ get_classifier.ok
  /\ Enter(get_classifier.val, text, name)
  /\ request' = None
  /\ tool_response' = None
  /\ UNCHANGED <<globals, caller_list, history>>

\* handle_call_tool("list_schemas", arguments)
HandleListSchemas(arguments) ==
  /\ AtTopLevel
  /\ _classifier # None
  /\ request' = [name |-> "list_schemas", arguments |-> arguments]
  /\ tool_response' =
       Return(<<TextContent(json_dumps(
                  [available_schemas |-> list_available_schemas,
                   default_schema |-> "standard"]))>>)
  /\ NoFrame
  /\ UNCHANGED <<globals, caller_list, history>>

\* a handler that calls the classifier that was the global one before it
\* made the new one
HandleClassifyInput_Stale(arguments) ==
  /\ AtTopLevel
  /\ _classifier # None
  /\ request' = [name |-> "classify_input", arguments |-> arguments]
  /\ IF arguments = None \/ arguments.d = <<>>
     THEN /\ tool_response' =
               Raise(ValueError(<<"classify_input requires arguments">>))
          /\ NoFrame
          /\ UNCHANGED globals
     ELSE IF get(arguments.d, "input_text", Text(<<>>)) = Text(<<>>)
     THEN /\ tool_response' = Raise(ValueError(<<"input_text is required">>))
          /\ NoFrame
          /\ UNCHANGED globals
     ELSE /\ initialize_classifier(
               ClassificationConfig(
                 DefaultBaseUrl,
                 get(arguments.d, "model_id", PyStr(DefaultModelId)).s,
                 get(arguments.d, "temperature",
                     PyFloat(DefaultTemperature)).tenths))
          /\ Enter(_classifier, arguments.d["input_text"],
                   get(arguments.d, "schema_name", PyStr("standard")).s)
          /\ tool_response' = None
          /\ UNCHANGED <<environ, registry>>
  /\ UNCHANGED <<caller_list, history>>

\* a handler that makes the default classifier before it looks at the
\* arguments
HandleClassifyInput_InitFirst(arguments) ==
  /\ AtTopLevel
  /\ _classifier # None
  /\ request' = [name |-> "classify_input", arguments |-> arguments]
  /\ IF arguments = None \/ arguments.d = <<>>
     THEN /\ tool_response' =
               Raise(ValueError(<<"classify_input requires arguments">>))
          /\ NoFrame
          /\ initialize_classifier(
               ClassificationConfig(DefaultBaseUrl, DefaultModelId,
                                    DefaultTemperature))
          /\ UNCHANGED <<environ, registry>>
     ELSE IF get(arguments.d, "input_text", Text(<<>>)) = Text(<<>>)
     THEN /\ tool_response' = Raise(ValueError(<<"input_text is required">>))
          /\ NoFrame
          /\ UNCHANGED globals
     ELSE /\ initialize_classifier(
               ClassificationConfig(
                 DefaultBaseUrl,
                 get(arguments.d, "model_id", PyStr(DefaultModelId)).s,
                 get(arguments.d, "temperature",
                     PyFloat(DefaultTemperature)).tenths))
          /\ Enter(_classifier', arguments.d["input_text"],
                   get(arguments.d, "schema_name", PyStr("standard")).s)
          /\ tool_response' = None
          /\ UNCHANGED <<environ, registry>>
  /\ UNCHANGED <<caller_list, history>>

\* handle_call_tool("classify_input", arguments), lines 93-114: the request
\* is turned down, or the global classifier is made anew and called
HandleClassifyInput(arguments) ==
  /\ AtTopLevel
  /\ _classifier # None
  /\ request' = [name |-> "classify_input", arguments |-> arguments]
  /\ IF arguments = None \/ arguments.d = <<>>
     THEN /\ tool_response' =
               Raise(ValueError(<<"classify_input requires arguments">>))
          /\ NoFrame
          /\ UNCHANGED globals
     ELSE IF get(arguments.d, "input_text", Text(<<>>)) = Text(<<>>)
     THEN /\ tool_response' = Raise(ValueError(<<"input_text is required">>))
          /\ NoFrame
          /\ UNCHANGED globals
     ELSE /\ initialize_classifier(
               ClassificationConfig(
                 DefaultBaseUrl,
                 get(arguments.d, "model_id", PyStr(DefaultModelId)).s,
                 get(arguments.d, "temperature",
                     PyFloat(DefaultTemperature)).tenths))
          /\ Enter(_classifier', arguments.d["input_text"],
                   get(arguments.d, "schema_name", PyStr("standard")).s)
          /\ tool_response' = None
          /\ UNCHANGED <<environ, registry>>
  /\ UNCHANGED <<caller_list, history>>

\* handle_call_tool(name, arguments) for any other name, lines 124-125
HandleUnknownTool(name, arguments) ==
  /\ AtTopLevel
  /\ _classifier # None
  /\ name \notin {"list_schemas", "classify_input"}
  /\ request' = [name |-> name, arguments |-> arguments]
  /\ tool_response' = Raise(ValueError(<<"Unknown tool: ", name>>))
  /\ NoFrame
  /\ UNCHANGED <<globals, caller_list, history>>

\* a caller of the module asks for the list of the schema names
ListAvailableSchemas ==
  /\ AtTopLevel
  /\ caller_list' = [kind |-> "list", items |-> list_available_schemas]
  /\ request' = None
  /\ tool_response' = None
  /\ NoFrame
  /\ UNCHANGED <<globals, history>>

\* the caller changes the list it got: it drops the first name or adds one
MutateList ==
  /\ AtTopLevel
  /\ caller_list # None
  /\ Len(caller_list.items) = Len(SCHEMA_REGISTRY)
  /\ \E items \in {Tail(caller_list.items),
                   Append(caller_list.items, "custom")} :
       caller_list' = [kind |-> "list", items |-> items]
  /\ UNCHANGED <<globals, clock, pc, call, locals, request, tool_response,
                 history>>

\* a classify_input that builds the prompt before it resolves the schema
GetSchemaModel_AfterPrompt ==
  /\ pc = "get_schema_model"
  /\ prompt' = _create_classification_prompt(input_text, schema_name)
  /\ LET r == get_schema_model(schema_name)
     IN IF r.ok
        THEN schema_model' = r.val /\ exc' = exc /\ pc' = "create_tool"
        ELSE schema_model' = schema_model /\ exc' = r.exc /\ pc' = "except"
  /\ UNCHANGED <<globals, clock, call, classification_tool, llm_with_tools,
                 response, result, request, tool_response, caller_list,
                 history>>

\* line 67
GetSchemaModel ==
  /\ pc = "get_schema_model"
  /\ LET r == get_schema_model(schema_name)
     IN IF r.ok
        THEN schema_model' = r.val /\ exc' = exc /\ pc' = "create_tool"
        ELSE schema_model' = schema_model /\ exc' = r.exc /\ pc' = "except"
  /\ UNCHANGED <<globals, clock, call, classification_tool, llm_with_tools,
                 prompt, response, result, request, tool_response,
                 caller_list, history>>

\* a classifier that keeps the first tool it made and uses it ever after
CreateTool_Cached ==
  /\ pc = "create_tool"
  /\ classification_tool' =
       IF "tool" \in DOMAIN self THEN self.tool
       ELSE _create_classification_tool(schema_model, schema_name)
  /\ _classifier' = [kind |-> self.kind, config |-> self.config,
                     llm |-> self.llm, tool |-> classification_tool']
  /\ pc' = "bind_tools"
  /\ UNCHANGED <<environ, registry, last_config, clock, call, schema_model,
                 llm_with_tools,
                 prompt, response, result, exc, request, tool_response,
                 caller_list, history>>

\* line 70
CreateTool ==
  /\ pc = "create_tool"
  /\ classification_tool' =
       _create_classification_tool(schema_model, schema_name)
  /\ pc' = "bind_tools"
  /\ UNCHANGED <<globals, clock, call, schema_model, llm_with_tools, prompt,
                 response, result, exc, request, tool_response, caller_list,
                 history>>

\* a classify_input that sends the request without building the prompt
BindTools_NoPrompt ==
  /\ pc = "bind_tools"
  /\ llm_with_tools' = [llm |-> self.llm, tools |-> <<classification_tool>>]
  /\ pc' = "invoke"
  /\ UNCHANGED <<globals, clock, call, schema_model, classification_tool,
                 prompt, response, result, exc, request, tool_response,
                 caller_list, history>>

\* line 73
BindTools ==
  /\ pc = "bind_tools"
  /\ llm_with_tools' = [llm |-> self.llm, tools |-> <<classification_tool>>]
  /\ pc' = "create_prompt"
  /\ UNCHANGED <<globals, clock, call, schema_model, classification_tool,
                 prompt, response, result, exc, request, tool_response,
                 caller_list, history>>

\* line 76
CreatePrompt ==
  /\ pc = "create_prompt"
  /\ prompt' = _create_classification_prompt(input_text, schema_name)
  /\ pc' = "invoke"
  /\ UNCHANGED <<globals, clock, call, schema_model, classification_tool,
                 llm_with_tools, response, result, exc, request,
                 tool_response, caller_list, history>>

\* a client that sends the request once more after a failed request
Invoke_Retry ==
  /\ pc = "invoke"
  /\ \E d \in BackendDelays, step \in ClockSteps :
       \E r \in invoke(llm_with_tools.llm, d) :
         /\ delay' = d
         /\ invocations' = invocations + 1
         /\ clock' = clock + Waited(llm_with_tools.llm, d) + step
         /\ reply' = r
         /\ IF r.ok
            THEN response' = r.val /\ exc' = exc /\ pc' = "extract"
            ELSE IF invocations = 0
            THEN response' = response /\ exc' = exc /\ pc' = "invoke"
            ELSE response' = response /\ exc' = r.exc /\ pc' = "except"
  /\ UNCHANGED <<globals, self, input_text, schema_name, start_time,
                 schema_model, classification_tool, llm_with_tools, prompt,
                 result, ret, raised, request, tool_response, caller_list,
                 history>>

\* line 79: one request; the clock goes on by the time the request blocks
Invoke ==
  /\ pc = "invoke"
  /\ \E d \in BackendDelays, step \in ClockSteps :
       \E r \in invoke(llm_with_tools.llm, d) :
         /\ delay' = d
         /\ invocations' = invocations + 1
         /\ clock' = clock + Waited(llm_with_tools.llm, d) + step
         /\ reply' = r
         /\ IF r.ok
            THEN response' = r.val /\ exc' = exc /\ pc' = "extract"
            ELSE response' = response /\ exc' = r.exc /\ pc' = "except"
  /\ UNCHANGED <<globals, self, input_text, schema_name, start_time,
                 schema_model, classification_tool, llm_with_tools, prompt,
                 result, ret, raised, request, tool_response, caller_list,
                 history>>

\* lines 82-86
Extract ==
  /\ pc = "extract"
  /\ LET r == ExtractResult(response)
     IN IF r.ok
        THEN result' = r.val /\ exc' = exc /\ pc' = "fix_confidence"
        ELSE result' = result /\ exc' = r.exc /\ pc' = "except"
  /\ UNCHANGED <<globals, clock, call, schema_model, classification_tool,
                 llm_with_tools, prompt, response, request, tool_response,
                 caller_list, history>>

\* lines 88-93; result is the args dict of the tool call itself, not a copy
Coerce ==
  /\ pc = "fix_confidence"
  /\ LET r == FixConfidence(result)
     IN IF r.ok
        THEN /\ result' = r.val
             /\ response' = [response EXCEPT !.tool_calls[1].args = r.val]
             /\ exc' = exc
             /\ pc' = "return"
        ELSE /\ result' = result
             /\ response' = response
             /\ exc' = r.exc
             /\ pc' = "except"
  /\ UNCHANGED <<globals, clock, call, schema_model, classification_tool,
                 llm_with_tools, prompt, request, tool_response, caller_list,
                 history>>

\* what handle_call_tool returns for the result of classify_input, lines
\* 117-122; a direct caller of classify_input has no tool response
ToolResponse(r) ==
  IF request # None
  THEN Return(<<TextContent(json_dumps(r))>>)
  ELSE tool_response

\* lines 95-104
ReturnSuccess ==
  /\ pc = "return"
  /\ ret' = ClassificationResult(result, schema_name, self.config.model_id,
                                 clock - start_time, TRUE, None)
  /\ tool_response' = ToolResponse(ret')
  /\ pc' = "returned"
  /\ UNCHANGED <<globals, clock, self, input_text, schema_name, start_time,
                 delay, invocations, reply, raised, locals, request,
                 caller_list, history>>

\* an except clause that starts the pipeline again
Except_Restart ==
  /\ pc = "except"
  /\ pc' = "get_schema_model"
  /\ UNCHANGED <<globals, clock, call, locals, request, tool_response,
                 caller_list, history>>

\* lines 106-115: the except clause, or the exception leaves the call
Except ==
  /\ pc = "except"
  /\ IF exc.type \in ExceptionSubclasses
     THEN /\ ret' = ClassificationResult(EmptyDict, schema_name,
                                         self.config.model_id,
                                         clock - start_time, FALSE, str(exc))
          /\ raised' = raised
          /\ tool_response' = ToolResponse(ret')
     ELSE /\ ret' = ret
          /\ raised' = exc
          /\ tool_response' = IF request # None THEN Raise(exc)
                              ELSE tool_response
  /\ pc' = "returned"
  /\ UNCHANGED <<globals, clock, self, input_text, schema_name, start_time,
                 delay, invocations, reply, locals, request, caller_list,
                 history>>

Next ==
  \/ main
  \/ \E text \in InputTexts, name \in SchemaNames : classify_input(text, name)
  \/ \E arguments \in NoArguments : HandleListSchemas(arguments)
  \/ \E arguments \in ToolArguments : HandleClassifyInput(arguments)
  \/ \E name \in ToolNames, arguments \in NoArguments :
       HandleUnknownTool(name, arguments)
  \/ ListAvailableSchemas
  \/ MutateList
  \/ GetSchemaModel
  \/ CreateTool
  \/ BindTools
  \/ CreatePrompt
  \/ Invoke
  \/ Extract
  \/ Coerce
  \/ ReturnSuccess
  \/ Except

Spec == Init /\ [][Next]_vars

\* every step of a call that was entered is taken in the end: the call runs
\* in one thread, nothing in it waits but the request, and the request ends
\* with the answer or with the timeout of the client
Steps ==
  \/ GetSchemaModel
  \/ CreateTool
  \/ BindTools
  \/ CreatePrompt
  \/ Invoke
  \/ Extract
  \/ Coerce
  \/ ReturnSuccess
  \/ Except

FairSpec == Spec /\ WF_vars(Steps)

(* ------------------------------------------- the prompt builder by itself *)

\* a caller of the module sets the global classifier up anew
Reinitialize(model_id) ==
  /\ pc = "idle"
  /\ _classifier # None
  /\ initialize_classifier(
       ClassificationConfig(DefaultBaseUrl, model_id, DefaultTemperature))
  /\ UNCHANGED <<environ, registry, clock, pc, call, locals, request,
                 tool_response, caller_list, history>>

\* time goes by between two calls
Tick ==
  /\ pc = "idle"
  /\ clock < MaxTicks
  /\ clock' = clock + 1
  /\ UNCHANGED <<globals, pc, call, locals, request, tool_response,
                 caller_list, history>>

\* get_classifier()._create_classification_prompt(text, name)
BuildPrompt(text, name) ==
  /\ pc = "idle"
  /\ get_classifier.ok
  /\ input_text' = text
  /\ schema_name' = name
  /\ prompt' = _create_classification_prompt(text, name)
  /\ first_prompt' =
       IF first_prompt = None
       THEN [input_text |-> text, schema_name |-> name, prompt |-> prompt',
             model_id |-> _classifier.config.model_id, clock |-> clock]
       ELSE first_prompt
  /\ UNCHANGED <<globals, clock, pc, self, start_time, delay, invocations,
                 reply, ret, raised, schema_model, classification_tool,
                 llm_with_tools, response, result, exc, request,
                 tool_response, caller_list, got>>

\* the texts the prompt builder is called with: those of the calls, and one
\* with quotes and a line break that begins like another one
PromptTexts ==
  InputTexts \cup {Text(<<"hi", " ", "\"", "there", "\"", "\n">>)}

PromptNext ==
  \/ main
  \/ \E model_id \in ModelIds : Reinitialize(model_id)
  \/ Tick
  \/ \E text \in PromptTexts, name \in SchemaNames : BuildPrompt(text, name)

PromptSpec == Init /\ [][PromptNext]_vars

(* ------------------------------------- the global classifier by itself *)

BaseUrls == {DefaultBaseUrl, "http://gpu:11434"}
Temperatures == {DefaultTemperature, 9}
Configs ==
  {ClassificationConfig(base_url, model_id, temperature) :
     base_url \in BaseUrls, model_id \in ModelIds,
     temperature \in Temperatures}

\* a caller of the module calls initialize_classifier(config)
InitializeClassifier(config) ==
  /\ pc = "idle"
  /\ initialize_classifier(config)
  /\ UNCHANGED <<environ, registry, clock, pc, call, locals, request,
                 tool_response, caller_list, history>>

\* a caller of the module calls get_classifier()
GetClassifier ==
  /\ pc = "idle"
  /\ got' = get_classifier
  /\ UNCHANGED <<globals, clock, pc, call, locals, request, tool_response,
                 caller_list, first_prompt>>

ClassifierNext ==
  \/ \E config \in Configs : InitializeClassifier(config)
  \/ GetClassifier

ClassifierSpec == Init /\ [][ClassifierNext]_vars

(* ------------------------------------------------------------ properties *)

Returned == pc = "returned"
\* the call failed somewhere in the pipeline
Failed == exc # None
\* the backend answered with at least one tool call
Answered == reply # None /\ reply.ok /\ Len(reply.val.tool_calls) >= 1
\* the arguments the backend sent in its first tool call
SentArgs == reply.val.tool_calls[1].args
ValidNames == {"minimal", "standard", "detailed", "optimized", "context_aware"}

\* C1: every call of classify_input returns a ClassificationResult and
\* raises nothing; after any failure in the pipeline the result is the
\* failure envelope: empty result, success false, error_message str(cause),
\* and the schema_name and model_id of the call.
C1_NeverRaises ==
  Returned =>
    /\ raised = None
    /\ ret # None
    /\ ret.schema_name = schema_name
    /\ ret.model_id = self.config.model_id
    /\ Failed => /\ ret.result = EmptyDict
                 /\ ret.success = FALSE
                 /\ ret.error_message = str(exc)

C1_Witness ==
  /\ Returned
  /\ Failed
  /\ exc.type = "ReadTimeout"
  /\ ret # None
  /\ ret.model_id = "qwen3:8b"

\* C2: in every returned ClassificationResult, success is false exactly when
\* result is empty and error_message is not None; no result has success true
\* together with an empty result mapping.
C2_SuccessIff ==
  (Returned /\ ret # None) =>
    /\ (ret.success = FALSE)
         <=> (ret.result = EmptyDict /\ ret.error_message # None)
    /\ ~(ret.success /\ ret.result = EmptyDict)

\* C3: whatever arguments the backend sent, the confidence of a successful
\* result lies in [0.0, 1.0] and its type is "prompt" or "workflow" (a
\* result that lacks the field is the matter of C4 and is not counted here).
C3_SuccessRange ==
  (Returned /\ ret # None /\ ret.success) =>
    /\ "confidence" \in DOMAIN ret.result =>
         /\ ret.result["confidence"].kind = "float"
         /\ ret.result["confidence"].tenths \in 0..10
    /\ "type" \in DOMAIN ret.result =>
         ret.result["type"] \in {PyStr("prompt"), PyStr("workflow")}

\* C4: when the arguments of the backend's tool call lack type or lack
\* confidence, the call fails: success false and an empty result.
C4_MissingRequired ==
  (Returned /\ Answered
     /\ ("type" \notin DOMAIN SentArgs \/ "confidence" \notin DOMAIN SentArgs))
    => /\ ret # None
       /\ ret.success = FALSE
       /\ ret.result = EmptyDict

\* C5: the result mapping of a successful call holds only field names that
\* the schema named in the call declares.
C5_OnlySchemaFields ==
  (Returned /\ ret # None /\ ret.success) =>
    DOMAIN ret.result \subseteq FieldNames(schema_model)

\* what float() cannot convert because it is no number and no numeral
NonNumeric(v) ==
  \/ v.kind \in {"None", "list"}
  \/ v.kind = "str" /\ v.s \notin {"0.9", "1.5", "nan"}

C7_UnknownSchema ==
  (Returned /\ schema_name \notin ValidNames) =>
    /\ ret # None
    /\ ret.success = FALSE
    /\ ret.result = EmptyDict
    /\ Contains(ret.error_message, "Unknown schema")
    /\ \A n \in ValidNames : Contains(ret.error_message, n)

C7_Witness ==
  /\ Returned
  /\ schema_name = "nonexistent"
  /\ ret # None
  /\ ~ret.success

\* get_schema_model has run in the current call
AfterGetSchemaModel == pc \notin {"idle", "get_schema_model"}
ListedNames ==
  {list_available_schemas[i] : i \in 1..Len(list_available_schemas)}

\* C8: get_schema_model succeeds for exactly the names list_available_schemas
\* returns, and the schema it resolves requires both type and confidence.
C8_ListedResolve ==
  AfterGetSchemaModel =>
    /\ (schema_model # None) <=> (schema_name \in ListedNames)
    /\ (schema_model # None) =>
         {"type", "confidence"} \subseteq RequiredFields(schema_model)

C8_Witness ==
  /\ pc = "create_tool"
  /\ schema_name = "minimal"
  /\ schema_model # None

\* C9: when the backend answers with an empty tool_calls list, the call
\* returns success false, an empty result and the error_message
\* "No tool calls found in the response".
C9_NoToolCalls ==
  (Returned /\ reply # None /\ reply.ok /\ Len(reply.val.tool_calls) = 0) =>
    /\ ret # None
    /\ ret.success = FALSE
    /\ ret.result = EmptyDict
    /\ ret.error_message = Text(<<"No tool calls found in the response">>)

C9_Witness ==
  /\ Returned
  /\ reply # None
  /\ reply.ok
  /\ Len(reply.val.tool_calls) = 0
  /\ ret # None

\* C10 as stated: a successful result is produced only from a response with
\* exactly one tool call.
C10_ExactlyOne ==
  (Returned /\ ret # None /\ ret.success) =>
    (reply.ok /\ Len(reply.val.tool_calls) = 1)

\* C10 as amended: a successful result is produced only from a response with
\* at least one tool call, and it is made of the arguments of the first tool
\* call (every field but confidence as sent); later tool calls are ignored.
C10_FirstOfSome ==
  (Returned /\ ret # None /\ ret.success) =>
    /\ Answered
    /\ DOMAIN ret.result = DOMAIN SentArgs
    /\ \A k \in DOMAIN SentArgs \ {"confidence"} : ret.result[k] = SentArgs[k]

C10_Witness ==
  /\ Returned
  /\ ret # None
  /\ ret.success
  /\ Answered
  /\ Len(reply.val.tool_calls) = 2
  /\ reply.val.tool_calls[2].args # SentArgs

\* C11: in every call of classify_input, on every path, the backend is
\* invoked at most once; a call that got an answer or an error of the
\* backend has sent exactly one request.
C11_AtMostOnce ==
  /\ invocations <= 1
  /\ (Returned /\ reply # None) => invocations = 1

C11_Witness ==
  /\ Returned
  /\ reply # None
  /\ ~reply.ok
  /\ reply.exc.type = "ConnectError"
  /\ ret # None
  /\ ~ret.success
  /\ invocations = 1

\* the backend took longer than the timeout of the configuration
TimedOut == reply # None /\ delay > self.config.timeout

C13_LatencyNonNegative ==
  ret # None => ret.latency_ms >= 0

PromptNames == {"conversation_context", "step_count", "requires_coordination"}

\* C14 as stated: for every input_text, the context_aware prompt contains
\* conversation_context, step_count and requires_coordination, and the
\* minimal prompt contains none of them.
C14_MinimalHasNone ==
  prompt # None =>
    /\ schema_name = "context_aware" =>
         \A n \in PromptNames : Contains(prompt, n)
    /\ schema_name = "minimal" =>
         \A n \in PromptNames : ~Contains(prompt, n)

\* C14 as amended: the context_aware prompt contains the three names for
\* every input_text; the minimal prompt contains none of them for every
\* input_text that contains none of them itself.
C14_MinimalHasNoneOfItsOwn ==
  prompt # None =>
    /\ schema_name = "context_aware" =>
         \A n \in PromptNames : Contains(prompt, n)
    /\ (schema_name = "minimal"
          /\ \A n \in PromptNames : ~Contains(input_text, n)) =>
         \A n \in PromptNames : ~Contains(prompt, n)

C14_Witness ==
  /\ prompt # None
  /\ schema_name = "minimal"
  /\ input_text = Text(<<"hi">>)
  /\ first_prompt # None
  /\ first_prompt.schema_name = "context_aware"

\* C15: two calls of _create_classification_prompt with the same input_text
\* and schema_name give the same string, whatever the configuration of the
\* classifier, the calls before and the time of the two calls.
C15_Deterministic ==
  (prompt # None /\ first_prompt # None
     /\ first_prompt.input_text = input_text
     /\ first_prompt.schema_name = schema_name)
    => prompt = first_prompt.prompt

C15_Witness ==
  /\ prompt # None
  /\ first_prompt # None
  /\ first_prompt.input_text = input_text
  /\ first_prompt.schema_name = schema_name
  /\ first_prompt.model_id # _classifier.config.model_id
  /\ first_prompt.clock # clock

\* a call of classify_input is in progress
InCall == pc \notin {"idle", "returned"}

\* C16: once main() has set the global classifier, no operation replaces or
\* changes it, and it is not set anew while a call of classify_input is in
\* progress.
C16_ReadOnly ==
  [][/\ _classifier # None => _classifier' = _classifier
     /\ InCall => _classifier' = _classifier]_vars

\* the arguments of the classify_input tool call in progress or just done
Arguments == request.arguments.d

\* C17: the classifier of every classify_input tool call talks to the base
\* URL configured at the start, and a call that leaves model_id or
\* temperature out runs with the model and the temperature configured at
\* the start.
C17_StartConfigInForce ==
  (self # None /\ request # None /\ request.name = "classify_input") =>
    /\ self.llm.base_url = StartConfig.base_url
    /\ "model_id" \notin DOMAIN Arguments =>
         self.llm.model = StartConfig.model_id
    /\ "temperature" \notin DOMAIN Arguments =>
         self.llm.temperature = StartConfig.temperature

FiveNames ==
  <<"minimal", "standard", "detailed", "optimized", "context_aware">>

\* what the list_schemas tool answered
Listed == tool_response.val[1].text.of

\* C18: after any sequence of operations, a caller changing a list it got
\* among them, list_available_schemas returns the same five names in the
\* same order, and the list_schemas tool reports these names and the
\* default_schema "standard", which is one of them.
C18_RegistryFixed ==
  /\ registry = SCHEMA_REGISTRY
  /\ list_available_schemas = FiveNames
  /\ (request # None /\ request.name = "list_schemas") =>
       /\ tool_response.ok
       /\ Listed.available_schemas = FiveNames
       /\ Listed.default_schema = "standard"
       /\ \E i \in 1..Len(Listed.available_schemas) :
            Listed.available_schemas[i] = Listed.default_schema

C18_Witness ==
  /\ caller_list # None
  /\ caller_list.items # FiveNames
  /\ request # None
  /\ request.name = "list_schemas"
  /\ _classifier.config.model_id = "qwen3:8b"

\* C19: every call of classify_input comes to its end, with one
\* ClassificationResult that is a success or a failure; after the end no
\* step of the pipeline is taken and the result stays as it is; a step that
\* fails goes to the except clause at once, whichever step it is.
C19_Terminates ==
  /\ InCall ~> (Returned /\ ret # None /\ ret.success \in BOOLEAN)
  /\ [][Returned => /\ pc' \in {"returned", "idle", "get_schema_model"}
                    /\ pc' = "returned" => (ret' = ret /\ raised' = raised)]_vars
  /\ [][ret' # ret => \/ InCall /\ pc' = "returned" /\ ret = None
                      \/ ret' = None /\ AtTopLevel]_vars
  /\ [][(exc' # exc /\ exc' # None) => (InCall /\ pc' = "except")]_vars
  /\ [][pc = "except" => (pc' = "returned" /\ ~ret'.success)]_vars

C19_Witness ==
  /\ Returned
  /\ ret # None
  /\ ~ret.success
  /\ exc.type = "ValueError"
  /\ reply # None
  /\ reply.ok
  /\ request # None

\* C20 as stated: the schema is resolved first, the prompt is built before
\* the declaration of the structured call is created, and both exist before
\* the backend is invoked.
C20_PromptBeforeDeclaration ==
  /\ (prompt # None \/ classification_tool # None) => schema_model # None
  /\ classification_tool # None => prompt # None
  /\ invocations > 0 => (prompt # None /\ classification_tool # None)

\* C20 as amended: the schema is resolved first, the declaration of the
\* structured call is created and bound to the client before the prompt is
\* built, and all of them exist before the backend is invoked.
C20_DeclarationBeforePrompt ==
  /\ (prompt # None \/ classification_tool # None) => schema_model # None
  /\ llm_with_tools # None => classification_tool # None
  /\ prompt # None => (classification_tool # None /\ llm_with_tools # None)
  /\ invocations > 0 => (prompt # None /\ classification_tool # None)

C20_Witness ==
  /\ invocations = 1
  /\ prompt # None
  /\ classification_tool # None
  /\ Returned
  /\ ret # None
  /\ ret.success

\* the model the registry holds under a name, and its field of a name
Model(name) == GetItem(registry, name)
FieldOf(model, name) ==
  model.model_fields[CHOOSE i \in 1..Len(model.model_fields) :
                       model.model_fields[i].name = name]
ConstraintsOf(model, name) == FieldOf(model, name).constraints

\* model `sub` has the fields of `base`, each with the annotation and the
\* constraints it has in `base`, and the fields `added` besides
Extends(sub, base, added) ==
  /\ FieldNames(sub) = FieldNames(base) \cup added
  /\ \A f \in FieldNames(base) : FieldOf(sub, f) = FieldOf(base, f)

\* what C21 says of every schema but detailed
SupersetsButDetailed ==
  /\ FieldNames(Model("minimal")) = {"type", "confidence"}
  /\ ConstraintsOf(Model("minimal"), "confidence") = {<<"ge", 0>>, <<"le", 10>>}
  /\ Extends(Model("standard"), Model("minimal"), {"reasoning"})
  /\ ConstraintsOf(Model("standard"), "reasoning") = {<<"max_length", 150>>}
  /\ Extends(Model("context_aware"), Model("standard"),
             {"conversation_context", "step_count", "requires_coordination"})
  /\ ConstraintsOf(Model("context_aware"), "step_count") = {<<"ge", 1>>}
  /\ FieldNames(Model("optimized")) =
       {"type", "confidence", "reasoning", "task_steps"}
  /\ ConstraintsOf(Model("optimized"), "reasoning") =
       {<<"min_length", 10>>, <<"max_length", 100>>}
  /\ ConstraintsOf(Model("optimized"), "task_steps") = {<<"ge", 1>>}
  /\ FieldNames(Model("detailed")) =
       FieldNames(Model("standard")) \cup {"indicators", "complexity_score"}
  /\ ConstraintsOf(Model("detailed"), "complexity_score") =
       {<<"ge", 1>>, <<"le", 5>>}

\* C21 as stated: the schemas are field supersets with unchanged
\* constraints; detailed is standard plus indicators and complexity_score in
\* 1..5, so that reasoning is at most 150 characters in detailed as in
\* standard.
C21_DetailedKeepsBound ==
  /\ SupersetsButDetailed
  /\ Extends(Model("detailed"), Model("standard"),
             {"indicators", "complexity_score"})
  /\ ConstraintsOf(Model("detailed"), "reasoning") = {<<"max_length", 150>>}

\* C21 as amended: detailed has the fields of standard plus indicators and
\* complexity_score in 1..5, type and confidence as in standard, and
\* reasoning of at most 200 characters, not 150; the other schemas are as
\* stated.
C21_DetailedWidensBound ==
  /\ SupersetsButDetailed
  /\ \A f \in {"type", "confidence"} :
       FieldOf(Model("detailed"), f) = FieldOf(Model("standard"), f)
  /\ ConstraintsOf(Model("detailed"), "reasoning") = {<<"max_length", 200>>}

C21_Witness ==
  /\ pc = "create_tool"
  /\ schema_name = "detailed"
  /\ schema_model = Model("detailed")
  /\ ConstraintsOf(schema_model, "reasoning")
       # ConstraintsOf(Model("standard"), "reasoning")

\* C22: a call whose schema_name is not in the registry fails before
\* anything else is done: no tool is created or bound, no prompt is built
\* and no request is sent to the backend.
C22_UnknownSchemaShortCircuits ==
  (pc # "idle" /\ ~HasKey(registry, schema_name)) =>
    /\ schema_model = None
    /\ classification_tool = None
    /\ llm_with_tools = None
    /\ prompt = None
    /\ invocations = 0
    /\ reply = None
    /\ pc \in {"get_schema_model", "except", "returned"}
    /\ Returned => (ret # None /\ ~ret.success /\ ret.result = EmptyDict)

C22_Witness ==
  /\ Returned
  /\ schema_name = "nonexistent"
  /\ request # None
  /\ ret # None
  /\ ~ret.success
  /\ invocations = 0
  /\ prompt = None

\* C23: latency_ms is measured from before the first step of the pipeline
\* to after the last one, on success and on failure, so it is never less
\* than the time the request to the backend took in that call.
C23_SpansRoundTrip ==
  (ret # None /\ reply # None) => ret.latency_ms >= Waited(self.llm, delay)

\* the fields C24 says the addendum of a schema name gives instructions for
AddendumFields(name) ==
  CASE name = "detailed" -> {"indicators", "complexity_score"}
    [] name = "optimized" -> {"task_steps"}
    [] name = "context_aware" ->
         {"conversation_context", "step_count", "requires_coordination"}
    [] OTHER -> {}

\* the pieces of the prompt after the rules block and before the two pieces
\* of the closing instructions
AfterRules == SubSeq(prompt.pieces, Len(input_text.pieces) + 7,
                     Len(prompt.pieces) - 2)
Headings ==
  {i \in 1..Len(prompt.pieces) :
     prompt.pieces[i] = "Additional Analysis Required"}

\* C24: the addendum of the prompt depends on the schema name alone and
\* there is at most one: detailed, optimized and context_aware get the
\* instructions for their own fields, every other name gets nothing, and
\* the addendum stands between the rules block and the closing
\* instructions.
C24_OneAddendumByName ==
  prompt # None =>
    /\ SubSeq(prompt.pieces, Len(input_text.pieces) + 5,
              Len(input_text.pieces) + 6)
         = <<"Classification Rules", "Key Indicators">>
    /\ SubSeq(prompt.pieces, Len(prompt.pieces) - 1, Len(prompt.pieces))
         = <<"Instructions", "When in doubt, prefer prompt">>
    /\ IF AddendumFields(schema_name) = {}
       THEN AfterRules = <<>> /\ Headings = {}
       ELSE /\ Cardinality(Headings) = 1
            /\ AfterRules[1] = "Additional Analysis Required"
            /\ {AfterRules[i] : i \in 2..Len(AfterRules)}
                 = AddendumFields(schema_name)

C24_Witness ==
  /\ prompt # None
  /\ schema_name = "nonexistent"
  /\ first_prompt # None
  /\ first_prompt.schema_name = "optimized"
  /\ first_prompt.input_text = input_text

\* text `part` is in text `whole` piece by piece, in one run
Within(part, whole) ==
  \E i \in 1..(Len(whole.pieces) + 1) :
    /\ i + Len(part.pieces) - 1 <= Len(whole.pieces)
    /\ SubSeq(whole.pieces, i, i + Len(part.pieces) - 1) = part.pieces

\* C25: the prompt holds the input text as it is, in one run, whatever the
\* text and the schema name; two different input texts with the same schema
\* name give two different prompts.
C25_InputVerbatim ==
  prompt # None =>
    /\ Within(input_text, prompt)
    /\ (first_prompt # None
          /\ first_prompt.schema_name = schema_name
          /\ first_prompt.input_text # input_text)
         => first_prompt.prompt # prompt

C25_Witness ==
  /\ prompt # None
  /\ input_text = Text(<<"hi", " ", "\"", "there", "\"", "\n">>)
  /\ first_prompt.input_text = Text(<<"hi">>)
  /\ first_prompt.schema_name = schema_name

\* C26: the result of a successful call has no key the backend did not
\* send (a field of the schema the backend left out is not filled in, and
\* confidence is no exception), and every value but confidence is the value
\* the backend sent.
C26_OnlyConfidenceChanges ==
  (Returned /\ ret # None /\ ret.success) =>
    /\ DOMAIN ret.result \subseteq DOMAIN SentArgs
    /\ \A f \in FieldNames(schema_model) \ DOMAIN SentArgs :
         f \notin DOMAIN ret.result
    /\ \A k \in DOMAIN ret.result \ {"confidence"} :
         ret.result[k] = SentArgs[k]

C26_Witness ==
  /\ Returned
  /\ ret # None
  /\ ret.success
  /\ schema_name = "detailed"
  /\ "reasoning" \notin DOMAIN ret.result
  /\ "confidence" \in DOMAIN ret.result
  /\ ret.result["confidence"] # SentArgs["confidence"]
  /\ "type" \in DOMAIN ret.result
  /\ ret.result["type"] = PyStr("command")

\* the classify_input tool request names a model and a temperature
Requested ==
  /\ request # None
  /\ request.name = "classify_input"
  /\ self # None
  /\ {"model_id", "temperature"} \subseteq DOMAIN Arguments

C28_DeclarationOfOwnSchema ==
  /\ classification_tool # None =>
       /\ HasKey(registry, schema_name)
       /\ schema_model = Model(schema_name)
       /\ classification_tool =
            _create_classification_tool(Model(schema_name), schema_name)
       /\ classification_tool.args_schema = Model(schema_name)
  /\ llm_with_tools # None =>
       /\ llm_with_tools.tools = <<classification_tool>>
       /\ llm_with_tools.llm = self.llm
  /\ invocations > 0 => llm_with_tools.tools[1].args_schema = Model(schema_name)
  /\ _classifier # None => DOMAIN _classifier = {"kind", "config", "llm"}
  /\ self # None => DOMAIN self = {"kind", "config", "llm"}
  /\ pc \in {"idle", "get_schema_model"} =>
       (classification_tool = None /\ llm_with_tools = None)

C28_Witness ==
  /\ Returned
  /\ request = None
  /\ invocations = 1
  /\ schema_name = "context_aware"
  /\ llm_with_tools.tools[1].args_schema = ContextAwareSchema
  /\ ret # None
  /\ ret.success

\* the tool requests C29 says are turned down
Rejected(req) ==
  \/ req.name \notin {"list_schemas", "classify_input"}
  \/ /\ req.name = "classify_input"
     /\ \/ req.arguments = None
        \/ DOMAIN req.arguments.d = {}
        \/ "input_text" \notin DOMAIN req.arguments.d
        \/ req.arguments.d["input_text"] = Text(<<>>)

\* C29: a tool request with an unknown name, or for classify_input without
\* arguments or without input_text, raises ValueError, starts no call and
\* sends nothing to the backend; such a request and a list_schemas request
\* leave the global classifier, the registry and the environment as they
\* are.
C29_RejectedLeavesState ==
  /\ []((request # None /\ Rejected(request)) =>
          /\ pc = "idle"
          /\ self = None
          /\ invocations = 0
          /\ tool_response # None
          /\ ~tool_response.ok
          /\ tool_response.exc.type = "ValueError")
  /\ [][(request' # None
           /\ (Rejected(request') \/ request'.name = "list_schemas")) =>
          /\ _classifier' = _classifier
          /\ registry' = registry
          /\ environ' = environ]_vars

C29_Witness ==
  /\ request # None
  /\ Rejected(request)
  /\ request.name = "classify_input"
  /\ request.arguments # None
  /\ "schema_name" \in DOMAIN request.arguments.d
  /\ _classifier.config.model_id = "qwen3:8b"
  /\ "MODEL_ID" \notin DOMAIN environ

\* C30: get_classifier raises RuntimeError exactly when
\* initialize_classifier was never called; after any calls of
\* initialize_classifier it returns the classifier made of the
\* configuration of the last one; it leaves the global classifier as it is.
C30_LastInitialization ==
  /\ [](IF last_config = None
        THEN _classifier = None
        ELSE _classifier = PythonLangChainClassifier(last_config))
  /\ [][got' # got =>
          /\ _classifier' = _classifier
          /\ last_config' = last_config
          /\ got'.ok <=> last_config # None
          /\ ~got'.ok => got'.exc.type = "RuntimeError"
          /\ got'.ok => got'.val = PythonLangChainClassifier(last_config)]_vars

C30_Witness ==
  /\ got # None
  /\ got.ok
  /\ got.val = _classifier
  /\ last_config.temperature = 9
  /\ last_config.model_id = "qwen3:8b"
  /\ last_config.base_url = DefaultBaseUrl

====
